---- MODULE Spec2Model ----
(***************************************************************************)
(* A model of the promise cell of go-promises: the write-once result slot, *)
(* the four handler lists, delivery (deliver / notify) and registration    *)
(* (Success / Catch / Canceled / Always), run by concurrent goroutines.    *)
(* A goroutine blocked in Lock() is one that has not yet made its call, so  *)
(* a call starts with the step that takes the lock and runs the locked     *)
(* body; what the deferred function does after Unlock() is further steps.  *)
(***************************************************************************)
EXTENDS Integers, Sequences, FiniteSets, TLC

(***************************************************************************)
(* Bounds of the model.                                                    *)
(***************************************************************************)
\* number of goroutines calling into the cell
NumThreads == 2
\* number of handler closures a single goroutine registers (SpecDispatch)
NumHandlers == 3
\* number of handler closures the concurrent goroutines register (Spec)
MaxRaceHandlers == 1
\* cap of the history counters (invocations per handler, transitions, dispatches)
MaxCount == 2
\* number of cells a join (ThenAll / ThenAny) is given
NumJoined == 2
\* largest capacity of the channel Wait / Signal is given
MaxCap == 1

Threads == 1..NumThreads
Handlers == 1..NumHandlers
NoThread == 0

\* the cells of a combinator program: the cells handed to the combinator (the
\* continuation of Then is the first of them), the receiver p, the result of
\* all / any, the result of Thenf, and the package-level cell resolved
Joined == 1..NumJoined
PCell == NumJoined + 1
JoinCell == NumJoined + 2
BridgeCell == NumJoined + 3
ResolvedCell == NumJoined + 4
Cells == 1..(NumJoined + 4)
NoCell == 0
\* the goroutine that calls the combinator; the goroutine that delivers a
\* cell has the number of its cell
Main == 0
Goroutines == 0..(NumJoined + 1)

(***************************************************************************)
(* Values of Go's interface{} that the model distinguishes.                *)
(***************************************************************************)
\* the nil interface value: also what atomic.Value.Load returns before a Store
Nil == "nil"
\* the non-nil placeholder stored when nil is delivered
nilResult == "nilResult"
\* the value delivered by Succeed()
True == "true"
\* some non-error payload (the tests use 12)
V12 == "v12"
\* some error other than the cancellation marker
E1 == "testErr"
\* the cancellation marker
ErrPromiseCanceled == "ErrPromiseCanceled"

\* the values a caller can pass as an interface{} argument
Payloads == {Nil, True, V12, E1, ErrPromiseCanceled}
\* the outcomes the goroutines of a combinator program deliver
Outcomes == {Nil, V12, E1, ErrPromiseCanceled}
\* the values a caller can pass as an error argument (a nil error included)
ErrorArgs == {Nil, E1, ErrPromiseCanceled}
\* the values the result slot of some resolved cell can hold
StoredValues == {nilResult, True, V12, E1, ErrPromiseCanceled}
\* the contents of the result slot of some other cell, pending (Nil) or resolved
CellStates == StoredValues \cup {Nil}

\* the type assertion res.(error)
IsErrorValue(v) == v \in {E1, ErrPromiseCanceled}

(***************************************************************************)
(* The predicates and accessors, as functions of the loaded result slot.   *)
(***************************************************************************)
IsDelivered(r) == r # Nil

IsPending(r) == ~IsDelivered(r)

Error(r) == IF r # Nil /\ IsErrorValue(r) THEN r ELSE Nil

\* RawResult answering like Result: nil for a stored error
RawResult_result(r) == IF r = nilResult \/ IsErrorValue(r) THEN Nil ELSE r

RawResult(r) == IF r = nilResult THEN Nil ELSE r

Result(r) ==
    IF r # Nil
    THEN IF IsErrorValue(r) THEN Nil
         ELSE IF r = nilResult THEN Nil ELSE r
    ELSE r

IsFailed(r) == Error(r) # Nil

IsError(r) == IsFailed(r)

\* IsSuccess without the type assertion
IsSuccess_delivered(r) == r # Nil

IsSuccess(r) == IF r = Nil THEN FALSE ELSE ~IsErrorValue(r)

IsCanceled(r) == Error(r) = ErrPromiseCanceled

(***************************************************************************)
(* State.                                                                  *)
(***************************************************************************)
VARIABLES
    result,            \* promise.result: Nil until the one Store
    lock,              \* promise.lock: the goroutine holding it, or NoThread
    successHandlers,   \* the four handler lists: sequences of handler ids
    catchHandlers,
    alwaysHandlers,
    canceledHandlers,
    pc,                \* position of each goroutine in the call it executes
    op,                \* the call each goroutine executes: "deliver", the name of
                       \* a registration method, or of a method that panicked
    hnd,               \* the handler argument of a registration call
    wasDelivered,      \* deliver: local wasDelivered
    notify,            \* Success/Catch/Canceled/Always: local notify
    handlers,          \* notify: the copy being iterated (what is left of it)
    arg,               \* notify: local res / err
    phase,             \* notify: which of the four loops is running
    ret,               \* how the call ended: "none", "self" (returned p), "panic"
    outer,             \* the call whose handler is running the current call
    reg,               \* per handler closure: how it was registered
    calls,             \* per handler closure: its invocations, in order
    closures,          \* number of closures the program has yet to register
    transitions,       \* history: number of Stores into result
    dispatches         \* history: number of runs of notify()

lists == <<successHandlers, catchHandlers, alwaysHandlers, canceledHandlers>>
cell == <<result, lock, lists>>
locals == <<pc, op, hnd, wasDelivered, notify, handlers, arg, phase, ret, outer>>
history == <<reg, calls, closures, transitions, dispatches>>

(***************************************************************************)
(* State of the combinators: several cells, and goroutines whose calls     *)
(* nest (a delivery runs handlers that deliver to other cells).            *)
(***************************************************************************)
VARIABLES
    slot,              \* per cell: promise.result
    always,            \* per cell: promise.alwaysHandlers, a sequence of closures
    stack,             \* per goroutine: the calls in progress, innermost last
    count,             \* all: the shared countdown
    prog,              \* the combinator the program calls on the receiver
    joined,            \* len(promises) of the join
    promises,          \* the promises of the join: the cell at each place of the list
    todo,              \* per goroutine: it has yet to deliver its cell
    factoryCalls,      \* history: invocations of the continuation factory
    factoryArg,        \* history: what the factory was last called with
    origin,            \* history: per cell, the cell whose outcome it was given
    firstResolved,     \* history: the first joined cell to be resolved
    decs,              \* history: per joined cell, decrements of count it caused
    succeeds,          \* history: calls of result.Succeed() made by all
    panicked,          \* history: a DeliverWithPromise of a combinator panicked
    capacity,          \* waitChan: cap(waitChan)
    buffer,            \* waitChan: the values sent and not yet received
    received,          \* what the caller of Wait / Signal received from waitChan
    calledOn           \* history: the state of the cell when Wait / Signal was called

cells == <<slot, always>>
program == <<prog, joined, promises>>
chronicle == <<factoryCalls, factoryArg, origin, firstResolved, decs, succeeds, panicked>>
channel == <<capacity, buffer, received, calledOn>>
combinators == <<cells, stack, count, program, todo, chronicle, channel>>

vars == <<cell, locals, history, combinators>>

NoReg == [cat |-> "none", panics |-> FALSE, stored |-> FALSE, direct |-> FALSE]

RegistrationKinds == {"Success", "Catch", "Canceled", "Always"}

\* the goroutine's call was made by the program, not by a handler
NoCall ==
    [pc |-> "none", op |-> "none", hnd |-> 0, wasDelivered |-> FALSE,
     notify |-> FALSE, handlers |-> <<>>, arg |-> Nil, phase |-> "none",
     ret |-> "none"]

\* a new cell (NewPromise) and goroutines that have not called anything yet
New ==
    /\ result = Nil
    /\ lock = NoThread
    /\ successHandlers = <<>>
    /\ catchHandlers = <<>>
    /\ alwaysHandlers = <<>>
    /\ canceledHandlers = <<>>
    /\ pc = [t \in Threads |-> "idle"]
    /\ op = [t \in Threads |-> "none"]
    /\ hnd = [t \in Threads |-> 0]
    /\ wasDelivered = [t \in Threads |-> FALSE]
    /\ notify = [t \in Threads |-> FALSE]
    /\ handlers = [t \in Threads |-> <<>>]
    /\ arg = [t \in Threads |-> Nil]
    /\ phase = [t \in Threads |-> "none"]
    /\ ret = [t \in Threads |-> "none"]
    /\ outer = [t \in Threads |-> NoCall]
    /\ reg = [h \in Handlers |-> NoReg]
    /\ calls = [h \in Handlers |-> <<>>]
    /\ transitions = 0
    /\ dispatches = 0

\* no channel is in use
NoChannel ==
    /\ capacity = 0
    /\ buffer = <<>>
    /\ received = <<>>
    /\ calledOn = "none"

\* no combinator program runs
NoCombinators ==
    /\ NoChannel
    /\ slot = [c \in Cells |-> Nil]
    /\ always = [c \in Cells |-> <<>>]
    /\ stack = [g \in Goroutines |-> <<>>]
    /\ count = 0
    /\ prog = "none"
    /\ joined = 0
    /\ promises = <<>>
    /\ todo = [g \in Goroutines |-> FALSE]
    /\ factoryCalls = 0
    /\ factoryArg = Nil
    /\ origin = [c \in Cells |-> NoCell]
    /\ firstResolved = NoCell
    /\ decs = [c \in Joined |-> 0]
    /\ succeeds = 0
    /\ panicked = FALSE

Init == New /\ closures = MaxRaceHandlers /\ NoCombinators

InitDispatch == New /\ closures = NumHandlers /\ NoCombinators

(***************************************************************************)
(* deliver.  x is the value deliver is given.                              *)
(***************************************************************************)
\* deliver storing nil as it is, without the placeholder
Placeholder_raw(x) == x

\* what deliver stores for the value it is given
Placeholder(x) == IF x = Nil THEN nilResult ELSE x

\* p.result.Store(result), counted
Store(t, x) ==
    /\ transitions < MaxCount
    /\ result' = Placeholder(x)
    /\ transitions' = transitions + 1
    /\ wasDelivered' = [wasDelivered EXCEPT ![t] = TRUE]

\* deliver without the IsDelivered check
deliver_overwrite(t, x) ==
    /\ pc[t] = "idle"
    /\ lock = NoThread
    /\ lock' = t
    /\ Store(t, x)
    /\ op' = [op EXCEPT ![t] = "deliver"]
    /\ pc' = [pc EXCEPT ![t] = "d_unlock"]
    /\ UNCHANGED <<lists, hnd, notify, handlers, arg, phase, ret, reg, calls, closures, dispatches, outer, combinators>>

\* deliver with wasDelivered set on both branches
deliver_flag(t, x) ==
    /\ pc[t] = "idle"
    /\ lock = NoThread
    /\ lock' = t
    /\ IF ~IsDelivered(result)
       THEN Store(t, x)
       ELSE /\ wasDelivered' = [wasDelivered EXCEPT ![t] = TRUE]
            /\ UNCHANGED <<result, transitions>>
    /\ op' = [op EXCEPT ![t] = "deliver"]
    /\ pc' = [pc EXCEPT ![t] = "d_unlock"]
    /\ UNCHANGED <<lists, hnd, notify, handlers, arg, phase, ret, reg, calls, closures, dispatches, outer, combinators>>

\* p.lock.Lock() and the body of deliver, which runs under the lock
deliver(t, x) ==
    /\ pc[t] = "idle"
    /\ lock = NoThread
    /\ lock' = t
    /\ IF ~IsDelivered(result)
       THEN Store(t, x)
       ELSE UNCHANGED <<result, transitions, wasDelivered>>
    /\ op' = [op EXCEPT ![t] = "deliver"]
    /\ pc' = [pc EXCEPT ![t] = "d_unlock"]
    /\ UNCHANGED <<lists, hnd, notify, handlers, arg, phase, ret, reg, calls, closures, dispatches, outer, combinators>>

\* the deferred function of deliver notifying whether or not this call stored
deliverUnlock_always(t) ==
    /\ pc[t] = "d_unlock"
    /\ lock' = NoThread
    /\ pc' = [pc EXCEPT ![t] = "n_begin"]
    /\ UNCHANGED <<result, lists, op, hnd, wasDelivered, notify, handlers, arg, phase, ret, history, outer, combinators>>

\* the deferred function of deliver: unlock, then notify if this call stored
deliverUnlock(t) ==
    /\ pc[t] = "d_unlock"
    /\ lock' = NoThread
    /\ IF wasDelivered[t]
       THEN /\ pc' = [pc EXCEPT ![t] = "n_begin"]
            /\ ret' = ret
       ELSE /\ pc' = [pc EXCEPT ![t] = "done"]
            /\ ret' = [ret EXCEPT ![t] = "self"]
    /\ UNCHANGED <<result, lists, op, hnd, wasDelivered, notify, handlers, arg, phase, history, outer, combinators>>

(***************************************************************************)
(* The delivery operations.                                                *)
(***************************************************************************)
\* Cancel delivering an error that is not the marker
Cancel_generic(t) == deliver(t, E1)

Cancel(t) == deliver(t, ErrPromiseCanceled)

Fail(t, err) == deliver(t, err)

Succeed(t) == deliver(t, True)

SucceedWithResult(t, res) == deliver(t, res)

\* the panic of DeliverWithPromise: the call ends before it touches the cell
PanicPending(t, kind) ==
    /\ pc[t] = "idle"
    /\ op' = [op EXCEPT ![t] = kind]
    /\ pc' = [pc EXCEPT ![t] = "done"]
    /\ ret' = [ret EXCEPT ![t] = "panic"]
    /\ UNCHANGED <<cell, hnd, wasDelivered, notify, handlers, arg, phase, history, outer, combinators>>

\* DeliverWithPromise without the IsPending check
DeliverWithPromise_nocheck(t, s) == deliver(t, RawResult(s))

\* s is the result slot of the source cell at the moment of the call
DeliverWithPromise(t, s) ==
    IF IsPending(s)
    THEN PanicPending(t, "DeliverWithPromise")
    ELSE deliver(t, RawResult(s))

\* Deliver without the type assertion to Controller: what a cell holds is
\* delivered as a plain value
Deliver_noassert(t, isCell, v) == deliver(t, v)

\* Deliver: the argument is a Controller (isCell, v the contents of its
\* result slot; such an argument is never the nil interface) or the value v
Deliver(t, isCell, v) ==
    IF isCell
    THEN DeliverWithPromise(t, v)
    ELSE deliver(t, v)

(***************************************************************************)
(* notify: the dispatcher.  The copy of a handler list (copy*Handlers)     *)
(* takes and releases the lock around the copy, so it is one step that     *)
(* needs the lock free.  The loads of result that choose the branch are    *)
(* taken together with the first copy: result no longer changes.           *)
(***************************************************************************)
\* what an always handler is called with: the cell itself
Self == "p"
\* a canceled handler is called without arguments
NoArg == "()"

\* one invocation of handler h, recorded
Invoke(h, a, mode) ==
    /\ Len(calls[h]) < MaxCount
    /\ calls' = [calls EXCEPT ![h] = Append(@, [arg |-> a, mode |-> mode])]

\* the argument the loop of the given phase passes to its handlers
PhaseArg(t) ==
    CASE phase[t] = "success" -> arg[t]
      [] phase[t] = "catch" -> arg[t]
      [] phase[t] = "canceled" -> NoArg
      [] phase[t] = "always" -> Self

\* the start of notify(): the branch on IsSuccess and the first copy
notifyBegin(t) ==
    /\ pc[t] = "n_begin"
    /\ lock = NoThread
    /\ dispatches < MaxCount
    /\ dispatches' = dispatches + 1
    /\ IF IsSuccess(result)
       THEN /\ arg' = [arg EXCEPT ![t] = Result(result)]
            /\ handlers' = [handlers EXCEPT ![t] = successHandlers]
            /\ phase' = [phase EXCEPT ![t] = "success"]
       ELSE /\ arg' = [arg EXCEPT ![t] = Error(result)]
            /\ handlers' = [handlers EXCEPT ![t] = catchHandlers]
            /\ phase' = [phase EXCEPT ![t] = "catch"]
    /\ pc' = [pc EXCEPT ![t] = "n_loop"]
    /\ UNCHANGED <<cell, op, hnd, wasDelivered, notify, ret, reg, calls, closures, transitions, outer, combinators>>

\* an iteration whose handler call has no recover: a panic leaves notify()
notifyHandler_norecover(t) ==
    /\ pc[t] = "n_loop"
    /\ handlers[t] # <<>>
    /\ Invoke(Head(handlers[t]), PhaseArg(t), "dispatch")
    /\ IF reg[Head(handlers[t])].panics
       THEN /\ handlers' = [handlers EXCEPT ![t] = <<>>]
            /\ pc' = [pc EXCEPT ![t] = "done"]
            /\ ret' = [ret EXCEPT ![t] = "panic"]
       ELSE /\ handlers' = [handlers EXCEPT ![t] = Tail(@)]
            /\ UNCHANGED <<pc, ret>>
    /\ UNCHANGED <<cell, op, hnd, wasDelivered, notify, arg, phase, reg, closures, transitions, dispatches, outer, combinators>>

\* one iteration of a loop of notify(): notifySuccess / notifyCatch /
\* notifyCanceled / notifyAlways call the handler and recover its panic
notifyHandler(t) ==
    /\ pc[t] = "n_loop"
    /\ handlers[t] # <<>>
    /\ Invoke(Head(handlers[t]), PhaseArg(t), "dispatch")
    /\ handlers' = [handlers EXCEPT ![t] = Tail(@)]
    /\ UNCHANGED <<cell, pc, op, hnd, wasDelivered, notify, arg, phase, ret, reg, closures, transitions, dispatches, outer, combinators>>

\* notify() without its loop over the canceled handlers
NextPhase_nocanceled(ph, err) == "always"

\* the canceled loop run after every catch loop
NextPhase_cancelany(ph, err) ==
    CASE ph = "success" -> "always"
      [] ph = "catch" -> "canceled"
      [] ph = "canceled" -> "always"

\* the loop that follows the loop of the given phase; err is the local err
NextPhase(ph, err) ==
    CASE ph = "success" -> "always"
      [] ph = "catch" -> IF err = ErrPromiseCanceled THEN "canceled" ELSE "always"
      [] ph = "canceled" -> "always"

\* a copy that holds the handlers of the phase last to first
ListOf_reversed(ph) ==
    LET l == CASE ph = "success" -> successHandlers
               [] ph = "catch" -> catchHandlers
               [] ph = "canceled" -> canceledHandlers
               [] ph = "always" -> alwaysHandlers
    IN [i \in 1..Len(l) |-> l[Len(l) + 1 - i]]

\* the list a phase copies
ListOf(ph) ==
    CASE ph = "success" -> successHandlers
      [] ph = "catch" -> catchHandlers
      [] ph = "canceled" -> canceledHandlers
      [] ph = "always" -> alwaysHandlers

\* a loop of notify() is over: copy the list of the next one
notifyNext(t) ==
    /\ pc[t] = "n_loop"
    /\ handlers[t] = <<>>
    /\ phase[t] # "always"
    /\ lock = NoThread
    /\ phase' = [phase EXCEPT ![t] = NextPhase(phase[t], arg[t])]
    /\ handlers' = [handlers EXCEPT ![t] = ListOf(NextPhase(phase[t], arg[t]))]
    /\ UNCHANGED <<cell, pc, op, hnd, wasDelivered, notify, arg, ret, history, outer, combinators>>

\* the always loop is over: notify() returns and deliver() returns p
notifyReturn(t) ==
    /\ pc[t] = "n_loop"
    /\ handlers[t] = <<>>
    /\ phase[t] = "always"
    /\ pc' = [pc EXCEPT ![t] = "done"]
    /\ ret' = [ret EXCEPT ![t] = "self"]
    /\ UNCHANGED <<cell, op, hnd, wasDelivered, notify, handlers, arg, phase, history, outer, combinators>>

(***************************************************************************)
(* Registration: Success, Catch, Canceled, Always.  Each takes the lock,   *)
(* decides under it between direct and deferred invoke, and its deferred   *)
(* function unlocks and then calls the handler if the invoke is direct.    *)
(***************************************************************************)
\* the closure a registration call passes: the first one not yet used
FreshHandler ==
    CHOOSE h \in Handlers :
        /\ reg[h].cat = "none"
        /\ \A g \in Handlers : reg[g].cat = "none" => h <= g

\* p.lock.Lock() and the body of a registration method of the given
\* category: direct invoke if applies holds, deferred invoke otherwise
Register(t, kind, panics, applies) ==
    /\ pc[t] = "idle"
    /\ lock = NoThread
    /\ closures > 0
    /\ closures' = closures - 1
    /\ lock' = t
    /\ op' = [op EXCEPT ![t] = kind]
    /\ hnd' = [hnd EXCEPT ![t] = FreshHandler]
    /\ notify' = [notify EXCEPT ![t] = applies]
    /\ reg' = [reg EXCEPT ![FreshHandler] =
                  [cat |-> kind, panics |-> panics, stored |-> ~applies,
                   direct |-> applies]]
    /\ successHandlers' =
           IF kind = "Success" /\ ~applies
           THEN Append(successHandlers, FreshHandler) ELSE successHandlers
    /\ catchHandlers' =
           IF kind = "Catch" /\ ~applies
           THEN Append(catchHandlers, FreshHandler) ELSE catchHandlers
    /\ canceledHandlers' =
           IF kind = "Canceled" /\ ~applies
           THEN Append(canceledHandlers, FreshHandler) ELSE canceledHandlers
    /\ alwaysHandlers' =
           IF kind = "Always" /\ ~applies
           THEN Append(alwaysHandlers, FreshHandler) ELSE alwaysHandlers
    /\ pc' = [pc EXCEPT ![t] = "r_unlock"]
    /\ UNCHANGED <<result, wasDelivered, handlers, arg, phase, ret, calls, transitions, dispatches, outer, combinators>>

\* Success that always defers the invoke
Success_append(t, panics) == Register(t, "Success", panics, FALSE)

Success(t, panics) == Register(t, "Success", panics, IsSuccess(result))

Catch(t, panics) == Register(t, "Catch", panics, IsError(result))

Canceled(t, panics) == Register(t, "Canceled", panics, IsCanceled(result))

Always(t, panics) == Register(t, "Always", panics, IsDelivered(result))

\* the deferred function of a registration method calling the handler before
\* it releases the lock
registerUnlock_held(t) ==
    /\ pc[t] = "r_unlock"
    /\ IF notify[t]
       THEN /\ pc' = [pc EXCEPT ![t] = "r_call"]
            /\ UNCHANGED <<lock, ret>>
       ELSE /\ pc' = [pc EXCEPT ![t] = "done"]
            /\ lock' = NoThread
            /\ ret' = [ret EXCEPT ![t] = "self"]
    /\ UNCHANGED <<result, lists, op, hnd, wasDelivered, notify, handlers, arg, phase, history, outer, combinators>>

\* the deferred function of a registration method that never calls the handler
registerUnlock_nocall(t) ==
    /\ pc[t] = "r_unlock"
    /\ lock' = NoThread
    /\ pc' = [pc EXCEPT ![t] = "done"]
    /\ ret' = [ret EXCEPT ![t] = "self"]
    /\ UNCHANGED <<result, lists, op, hnd, wasDelivered, notify, handlers, arg, phase, history, outer, combinators>>

\* the deferred function of a registration method, first half: unlock
registerUnlock(t) ==
    /\ pc[t] = "r_unlock"
    /\ lock' = NoThread
    /\ IF notify[t]
       THEN /\ pc' = [pc EXCEPT ![t] = "r_call"]
            /\ ret' = ret
       ELSE /\ pc' = [pc EXCEPT ![t] = "done"]
            /\ ret' = [ret EXCEPT ![t] = "self"]
    /\ UNCHANGED <<result, lists, op, hnd, wasDelivered, notify, handlers, arg, phase, history, outer, combinators>>

\* the argument of the direct call of a handler of the given category
DirectArg(kind) ==
    CASE kind = "Success" -> Result(result)
      [] kind = "Catch" -> Error(result)
      [] kind = "Canceled" -> NoArg
      [] kind = "Always" -> Self

\* the deferred function, second half: handler(...) is called directly, with
\* no recover around it, so a panic of the handler leaves the method
registerCall(t) ==
    /\ pc[t] = "r_call"
    /\ Invoke(hnd[t], DirectArg(op[t]), "direct")
    /\ pc' = [pc EXCEPT ![t] = "done"]
    /\ ret' = [ret EXCEPT ![t] = IF reg[hnd[t]].panics THEN "panic" ELSE "self"]
    /\ UNCHANGED <<cell, op, hnd, wasDelivered, notify, handlers, arg, phase, reg, closures, transitions, dispatches, outer, combinators>>

(***************************************************************************)
(* The caller has the outcome of its call (a panic is one a caller can     *)
(* recover, as the tests do with assert.Panics) and goes on.               *)
(***************************************************************************)
Return(t) ==
    /\ pc[t] = "done"
    /\ outer[t] = NoCall
    /\ pc' = [pc EXCEPT ![t] = "idle"]
    /\ op' = [op EXCEPT ![t] = "none"]
    /\ hnd' = [hnd EXCEPT ![t] = 0]
    /\ wasDelivered' = [wasDelivered EXCEPT ![t] = FALSE]
    /\ notify' = [notify EXCEPT ![t] = FALSE]
    /\ arg' = [arg EXCEPT ![t] = Nil]
    /\ phase' = [phase EXCEPT ![t] = "none"]
    /\ ret' = [ret EXCEPT ![t] = "none"]
    /\ UNCHANGED <<cell, handlers, history, outer, combinators>>

(***************************************************************************)
(* A handler that calls into the cell it was registered on.  The handler   *)
(* runs on the goroutine that invokes it, so its call is made while the    *)
(* invoking call (notify() in its loop, or the deferred function of a      *)
(* registration method) waits for the handler to return.                   *)
(***************************************************************************)
\* goroutine t starts a call from within a handler; the call of t that
\* invoked the handler resumes at resumeAt with the given ret
Nested(t, resumeAt, rest, r) ==
    /\ outer[t] = NoCall
    /\ outer' = [outer EXCEPT ![t] =
                    [pc |-> resumeAt, op |-> op[t], hnd |-> hnd[t],
                     wasDelivered |-> wasDelivered[t], notify |-> notify[t],
                     handlers |-> rest, arg |-> arg[t], phase |-> phase[t],
                     ret |-> r]]
    /\ pc' = [pc EXCEPT ![t] = "idle"]
    /\ op' = [op EXCEPT ![t] = "none"]
    /\ hnd' = [hnd EXCEPT ![t] = 0]
    /\ wasDelivered' = [wasDelivered EXCEPT ![t] = FALSE]
    /\ notify' = [notify EXCEPT ![t] = FALSE]
    /\ handlers' = [handlers EXCEPT ![t] = <<>>]
    /\ arg' = [arg EXCEPT ![t] = Nil]
    /\ phase' = [phase EXCEPT ![t] = "none"]
    /\ ret' = [ret EXCEPT ![t] = "none"]

\* an iteration of a loop of notify() whose handler calls into the cell
notifyHandlerCalls(t) ==
    /\ pc[t] = "n_loop"
    /\ handlers[t] # <<>>
    /\ Invoke(Head(handlers[t]), PhaseArg(t), "dispatch")
    /\ Nested(t, "n_loop", Tail(handlers[t]), ret[t])
    /\ UNCHANGED <<cell, reg, closures, transitions, dispatches, combinators>>

\* the direct call of a handler that calls into the cell
registerCallCalls(t) ==
    /\ pc[t] = "r_call"
    /\ Invoke(hnd[t], DirectArg(op[t]), "direct")
    /\ Nested(t, "done", handlers[t], IF reg[hnd[t]].panics THEN "panic" ELSE "self")
    /\ UNCHANGED <<cell, reg, closures, transitions, dispatches, combinators>>

\* the call a handler made is over and the handler returns to the call that
\* invoked it: notify() recovers a panic, the direct call lets it through
handlerReturn(t) ==
    /\ pc[t] = "done"
    /\ outer[t] # NoCall
    /\ pc' = [pc EXCEPT ![t] = outer[t].pc]
    /\ op' = [op EXCEPT ![t] = outer[t].op]
    /\ hnd' = [hnd EXCEPT ![t] = outer[t].hnd]
    /\ wasDelivered' = [wasDelivered EXCEPT ![t] = outer[t].wasDelivered]
    /\ notify' = [notify EXCEPT ![t] = outer[t].notify]
    /\ handlers' = [handlers EXCEPT ![t] = outer[t].handlers]
    /\ arg' = [arg EXCEPT ![t] = outer[t].arg]
    /\ phase' = [phase EXCEPT ![t] = outer[t].phase]
    /\ ret' = [ret EXCEPT ![t] =
                  IF outer[t].pc = "done" /\ ret[t] = "panic" THEN "panic" ELSE outer[t].ret]
    /\ outer' = [outer EXCEPT ![t] = NoCall]
    /\ UNCHANGED <<cell, history, combinators>>

\* the steps of goroutine t
Step(t) ==
    \/ Succeed(t)
    \/ \E res \in Payloads : SucceedWithResult(t, res)
    \/ \E err \in ErrorArgs : Fail(t, err)
    \/ Cancel(t)
    \/ \E x \in Payloads : Deliver(t, FALSE, x)
    \/ \E s \in CellStates : Deliver(t, TRUE, s)
    \/ \E s \in CellStates : DeliverWithPromise(t, s)
    \/ deliverUnlock(t)
    \/ notifyBegin(t)
    \/ notifyHandler(t)
    \/ notifyNext(t)
    \/ notifyReturn(t)
    \/ \E panics \in BOOLEAN : Success(t, panics)
    \/ \E panics \in BOOLEAN : Catch(t, panics)
    \/ \E panics \in BOOLEAN : Canceled(t, panics)
    \/ \E panics \in BOOLEAN : Always(t, panics)
    \/ registerUnlock(t)
    \/ registerCall(t)
    \/ Return(t)

\* goroutines calling into one cell concurrently
Next == \E t \in Threads : Step(t)

Spec == Init /\ [][Next]_vars

\* one goroutine calling into one cell
NextDispatch == Step(1)

SpecDispatch == InitDispatch /\ [][NextDispatch]_vars

\* one goroutine runs the program while the others register always handlers
\* at any moment of it
StepObserver(t) ==
    \/ Always(t, FALSE)
    \/ registerUnlock(t)
    \/ registerCall(t)
    \/ Return(t)

InitOrder == New /\ closures = MaxRaceHandlers + 1 /\ NoCombinators

NextOrder == Step(1) \/ \E t \in Threads \ {1} : StepObserver(t)

SpecOrder == InitOrder /\ [][NextOrder]_vars

\* one goroutine calling into one cell, with handlers that call into it too
StepReentrant(t) ==
    \/ Step(t)
    \/ notifyHandlerCalls(t)
    \/ registerCallCalls(t)
    \/ handlerReturn(t)

NextReentrant == StepReentrant(1)

SpecReentrant == InitDispatch /\ [][NextReentrant]_vars

\* one goroutine calling into one cell, with the closures of Init
SpecCall == Init /\ [][NextDispatch]_vars

(***************************************************************************)
(* The combinators.  A program calls one combinator on the receiver p      *)
(* while other goroutines deliver p and the cells handed to the            *)
(* combinator, each once, before, during or after that call.  The locked   *)
(* body of deliver and of Always is one step here, and so is a load of a   *)
(* result slot: nothing else of a cell is shared.  Only always handlers    *)
(* are registered in these programs, so the other loops of notify() find   *)
(* their lists empty, and Always appends only to a pending cell, so the    *)
(* copy notify() takes of the always handlers is the list as it is when    *)
(* the result is stored.  A return is part of the step that ends the call. *)
(***************************************************************************)
Sequential == {"Thenf", "ThenWithResult"}
Joins == {"ThenAll", "ThenAny", "ThenAllf", "ThenAnyf"}
\* the joins built by all, and those whose list of cells comes from a factory
JoinsAll == {"ThenAll", "ThenAllf"}
JoinsFactory == {"ThenAllf", "ThenAnyf"}
Programs == Sequential \cup Joins

Frame(k, c, hs, i) == [k |-> k, c |-> c, hs |-> hs, i |-> i]

\* the closures the combinators register: the handler of Thenf /
\* ThenWithResult ("then"), the handler it puts on the continuation ("fwd"),
\* the handlers of all and any; to is the cell named result in the source
\* and f the cell the captured factory returns
Closure(k, to, f) == [k |-> k, to |-> to, f |-> f]

\* the calls the program makes: p.Thenf(factory), whose factory returns the
\* first of the cells, or p.Then(p.all(promises)), whose argument
\* p.all(promises) is evaluated first, and for ThenAllf / ThenAnyf the
\* argument factory() of all / any before that; the frame of Thenf holds in i
\* the cell its factory returns
ProgramOf(pr) ==
    IF pr \in Sequential
    THEN <<Frame("Thenf", PCell, <<>>, 1)>>
    ELSE IF pr \in JoinsFactory
    THEN <<Frame("Thenf", PCell, <<>>, NoCell), Frame("join", JoinCell, <<>>, 0),
           Frame("factory", NoCell, <<>>, 0)>>
    ELSE <<Frame("Thenf", PCell, <<>>, NoCell), Frame("join", JoinCell, <<>>, 0)>>

InitCombinators ==
    /\ New
    /\ NoChannel
    /\ closures = 0
    /\ prog \in Programs
    /\ joined \in (IF prog \in Sequential THEN {1} ELSE 0..NumJoined)
    /\ promises = [i \in 1..joined |-> i]
    /\ slot = [c \in Cells |-> IF c = ResolvedCell THEN Placeholder(True) ELSE Nil]
    /\ always = [c \in Cells |-> <<>>]
    /\ stack = [g \in Goroutines |-> IF g = Main THEN ProgramOf(prog) ELSE <<>>]
    /\ count = 0
    /\ todo = [g \in Goroutines |-> g = PCell \/ g \in 1..joined]
    /\ factoryCalls = 0
    /\ factoryArg = Nil
    /\ origin = [c \in Cells |-> NoCell]
    /\ firstResolved = NoCell
    /\ decs = [c \in Joined |-> 0]
    /\ succeeds = 0
    /\ panicked = FALSE

Top(g) == stack[g][Len(stack[g])]

Pop(g) == SubSeq(stack[g], 1, Len(stack[g]) - 1)

\* the stack of g with its innermost frame replaced
Replace(g, f) == Append(Pop(g), f)

\* all / any return cell c to Then, which captures it in its factory
ReturnJoin(g, c) ==
    Append(SubSeq(stack[g], 1, Len(stack[g]) - 2),
           [stack[g][Len(stack[g]) - 1] EXCEPT !.i = c])

\* the calls in progress without those that have nothing left to do: a loop
\* of notify() or a direct invoke whose handlers have all been called returns
RECURSIVE Settle(_)
Settle(stk) ==
    IF stk = <<>> THEN <<>>
    ELSE IF stk[Len(stk)].k \in {"loop", "direct"} /\ stk[Len(stk)].hs = <<>>
         THEN Settle(SubSeq(stk, 1, Len(stk) - 1))
         ELSE stk

\* a panic leaves the calls in progress up to the nearest recover, which is
\* that of a loop of notify()
RECURSIVE Unwind(_)
Unwind(stk) ==
    IF stk = <<>> THEN <<>>
    ELSE IF stk[Len(stk)].k = "loop" THEN Settle(stk)
    ELSE Unwind(SubSeq(stk, 1, Len(stk) - 1))

\* deliver without the IsDelivered check
deliverCell_overwrite(g, c, x, from, stk) ==
    /\ slot' = [slot EXCEPT ![c] = Placeholder(x)]
    /\ origin' = [origin EXCEPT ![c] = from]
    /\ firstResolved' =
           IF c \in Joined /\ firstResolved = NoCell THEN c ELSE firstResolved
    /\ stack' = [stack EXCEPT ![g] = Settle(Append(stk, Frame("loop", c, always[c], 0)))]

\* c.deliver(x) called by g with stk the calls that remain in progress: the
\* locked body, and notify() up to its loop over the always handlers; the
\* call returns at once if the cell was resolved already
deliverCell(g, c, x, from, stk) ==
    IF ~IsDelivered(slot[c])
    THEN /\ slot' = [slot EXCEPT ![c] = Placeholder(x)]
         /\ origin' = [origin EXCEPT ![c] = from]
         /\ firstResolved' =
                IF c \in Joined /\ firstResolved = NoCell THEN c ELSE firstResolved
         /\ stack' = [stack EXCEPT ![g] = Settle(Append(stk, Frame("loop", c, always[c], 0)))]
    ELSE /\ stack' = [stack EXCEPT ![g] = Settle(stk)]
         /\ UNCHANGED <<slot, origin, firstResolved>>

\* a forwarding that resolves the target as succeeded whatever the source holds
DeliverWithPromiseCell_success(g, target, src, stk) ==
    /\ deliverCell(g, target, True, src, stk)
    /\ UNCHANGED panicked

\* target.DeliverWithPromise(src)
DeliverWithPromiseCell(g, target, src, stk) ==
    IF IsPending(slot[src])
    THEN /\ panicked' = TRUE
         /\ stack' = [stack EXCEPT ![g] = Unwind(stk)]
         /\ UNCHANGED <<slot, origin, firstResolved>>
    ELSE /\ deliverCell(g, target, RawResult(slot[src]), src, stk)
         /\ UNCHANGED panicked

\* Always that stores the handler whatever the state of the cell
AlwaysCell_append(g, c, h, stk) ==
    /\ always' = [always EXCEPT ![c] = Append(@, h)]
    /\ stack' = [stack EXCEPT ![g] = Settle(stk)]

\* Always that invokes the handler at once whatever the state of the cell
AlwaysCell_direct(g, c, h, stk) ==
    /\ stack' = [stack EXCEPT ![g] = Append(stk, Frame("direct", c, <<h>>, 0))]
    /\ UNCHANGED always

\* c.Always(h): the locked body; the direct invoke is a call that follows
AlwaysCell(g, c, h, stk) ==
    IF IsDelivered(slot[c])
    THEN /\ stack' = [stack EXCEPT ![g] = Append(stk, Frame("direct", c, <<h>>, 0))]
         /\ UNCHANGED always
    ELSE /\ always' = [always EXCEPT ![c] = Append(@, h)]
         /\ stack' = [stack EXCEPT ![g] = Settle(stk)]

\* a goroutine delivers its cell: Succeed, SucceedWithResult, Fail, Cancel or Deliver
userDeliver(g, x) ==
    /\ g # Main
    /\ todo[g]
    /\ stack[g] = <<>>
    /\ todo' = [todo EXCEPT ![g] = FALSE]
    /\ deliverCell(g, g, x, g, <<>>)
    /\ UNCHANGED <<always, count, program, factoryCalls, factoryArg, decs, succeeds, panicked, channel, cell, locals, history>>

\* g is about to call a handler of the given kinds
Calling(g, kinds) ==
    /\ stack[g] # <<>>
    /\ Top(g).k \in {"loop", "direct"}
    /\ Top(g).hs # <<>>
    /\ Head(Top(g).hs).k \in kinds

\* the calls in progress once the handler about to be called has returned
Rest(g) == Replace(g, [Top(g) EXCEPT !.hs = Tail(@)])

\* a forwarding handler that calls result.Succeed() whatever p2 holds
runForward_true(g) ==
    /\ Calling(g, {"fwd", "any"})
    /\ deliverCell(g, Head(Top(g).hs).to, True, Top(g).c, Rest(g))
    /\ UNCHANGED <<always, count, program, todo, factoryCalls, factoryArg, decs, succeeds, panicked, channel, cell, locals, history>>

\* the handler of any, and the handler Thenf puts on the continuation:
\* result.DeliverWithPromise(p2)
runForward(g) ==
    /\ Calling(g, {"fwd", "any"})
    /\ DeliverWithPromiseCell(g, Head(Top(g).hs).to, Top(g).c, Rest(g))
    /\ UNCHANGED <<always, count, program, todo, factoryCalls, factoryArg, decs, succeeds, channel, cell, locals, history>>

\* the handler of Thenf without the IsSuccess check: the factory is always called
runThen_nocheck(g) ==
    /\ Calling(g, {"then"})
    /\ factoryCalls < MaxCount
    /\ factoryCalls' = factoryCalls + 1
    /\ factoryArg' = IF prog = "ThenWithResult" THEN Result(slot[Top(g).c]) ELSE NoArg
    /\ AlwaysCell(g, Head(Top(g).hs).f,
                  Closure("fwd", Head(Top(g).hs).to, NoCell), Rest(g))
    /\ UNCHANGED <<slot, origin, firstResolved, panicked>>
    /\ UNCHANGED <<count, program, todo, decs, succeeds, channel, cell, locals, history>>

\* the handler of Thenf that leaves out the continuation when result is
\* resolved already
runThen_ifpending(g) ==
    /\ Calling(g, {"then"})
    /\ IF IsDelivered(slot[Head(Top(g).hs).to])
       THEN /\ stack' = [stack EXCEPT ![g] = Settle(Rest(g))]
            /\ UNCHANGED <<slot, origin, firstResolved, panicked, always, factoryCalls, factoryArg>>
       ELSE IF IsSuccess(slot[Top(g).c])
       THEN /\ factoryCalls < MaxCount
            /\ factoryCalls' = factoryCalls + 1
            /\ factoryArg' = IF prog = "ThenWithResult" THEN Result(slot[Top(g).c]) ELSE NoArg
            /\ AlwaysCell(g, Head(Top(g).hs).f,
                          Closure("fwd", Head(Top(g).hs).to, NoCell), Rest(g))
            /\ UNCHANGED <<slot, origin, firstResolved, panicked>>
       ELSE /\ DeliverWithPromiseCell(g, Head(Top(g).hs).to, Top(g).c, Rest(g))
            /\ UNCHANGED <<always, factoryCalls, factoryArg>>
    /\ UNCHANGED <<count, program, todo, decs, succeeds, channel, cell, locals, history>>

\* the handler of Thenf / ThenWithResult
runThen(g) ==
    /\ Calling(g, {"then"})
    /\ IF IsSuccess(slot[Top(g).c])
       THEN /\ factoryCalls < MaxCount
            /\ factoryCalls' = factoryCalls + 1
            /\ factoryArg' = IF prog = "ThenWithResult" THEN Result(slot[Top(g).c]) ELSE NoArg
            /\ AlwaysCell(g, Head(Top(g).hs).f,
                          Closure("fwd", Head(Top(g).hs).to, NoCell), Rest(g))
            /\ UNCHANGED <<slot, origin, firstResolved, panicked>>
       ELSE /\ DeliverWithPromiseCell(g, Head(Top(g).hs).to, Top(g).c, Rest(g))
            /\ UNCHANGED <<always, factoryCalls, factoryArg>>
    /\ UNCHANGED <<count, program, todo, decs, succeeds, channel, cell, locals, history>>

\* the handler of all counting a failed cell like a succeeded one
runAll_nofail(g) ==
    /\ Calling(g, {"all"})
    /\ decs[Top(g).c] < MaxCount
    /\ count' = count - 1
    /\ decs' = [decs EXCEPT ![Top(g).c] = @ + 1]
    /\ stack' = [stack EXCEPT ![g] =
                    IF count - 1 = 0
                    THEN Append(Rest(g), Frame("succeed", Head(Top(g).hs).to, <<>>, 0))
                    ELSE Settle(Rest(g))]
    /\ UNCHANGED <<slot, origin, firstResolved, panicked>>
    /\ UNCHANGED <<always, program, todo, factoryCalls, factoryArg, succeeds, channel, cell, locals, history>>

\* the handler of all succeeding one decrement early
runAll_early(g) ==
    /\ Calling(g, {"all"})
    /\ IF IsFailed(slot[Top(g).c])
       THEN /\ DeliverWithPromiseCell(g, Head(Top(g).hs).to, Top(g).c, Rest(g))
            /\ UNCHANGED <<count, decs>>
       ELSE /\ decs[Top(g).c] < MaxCount
            /\ count' = count - 1
            /\ decs' = [decs EXCEPT ![Top(g).c] = @ + 1]
            /\ stack' = [stack EXCEPT ![g] =
                            IF count - 1 <= 1
                            THEN Append(Rest(g), Frame("succeed", Head(Top(g).hs).to, <<>>, 0))
                            ELSE Settle(Rest(g))]
            /\ UNCHANGED <<slot, origin, firstResolved, panicked>>
    /\ UNCHANGED <<always, program, todo, factoryCalls, factoryArg, succeeds, channel, cell, locals, history>>

\* the handler of all counting a cell that is listed more than once only once
runAll_oncepercell(g) ==
    /\ Calling(g, {"all"})
    /\ IF IsFailed(slot[Top(g).c])
       THEN /\ DeliverWithPromiseCell(g, Head(Top(g).hs).to, Top(g).c, Rest(g))
            /\ UNCHANGED <<count, decs>>
       ELSE IF decs[Top(g).c] >= 1
       THEN /\ stack' = [stack EXCEPT ![g] = Settle(Rest(g))]
            /\ UNCHANGED <<count, decs, slot, origin, firstResolved, panicked>>
       ELSE /\ count' = count - 1
            /\ decs' = [decs EXCEPT ![Top(g).c] = @ + 1]
            /\ stack' = [stack EXCEPT ![g] =
                            IF count - 1 = 0
                            THEN Append(Rest(g), Frame("succeed", Head(Top(g).hs).to, <<>>, 0))
                            ELSE Settle(Rest(g))]
            /\ UNCHANGED <<slot, origin, firstResolved, panicked>>
    /\ UNCHANGED <<always, program, todo, factoryCalls, factoryArg, succeeds, channel, cell, locals, history>>

\* the handler of all: forward a failure, or count down and go on to
\* result.Succeed() if that reached zero
runAll(g) ==
    /\ Calling(g, {"all"})
    /\ IF IsFailed(slot[Top(g).c])
       THEN /\ DeliverWithPromiseCell(g, Head(Top(g).hs).to, Top(g).c, Rest(g))
            /\ UNCHANGED <<count, decs>>
       ELSE /\ decs[Top(g).c] < MaxCount
            /\ count' = count - 1
            /\ decs' = [decs EXCEPT ![Top(g).c] = @ + 1]
            /\ stack' = [stack EXCEPT ![g] =
                            IF count - 1 = 0
                            THEN Append(Rest(g), Frame("succeed", Head(Top(g).hs).to, <<>>, 0))
                            ELSE Settle(Rest(g))]
            /\ UNCHANGED <<slot, origin, firstResolved, panicked>>
    /\ UNCHANGED <<always, program, todo, factoryCalls, factoryArg, succeeds, channel, cell, locals, history>>

\* the handler of all, after the countdown reached zero: result.Succeed()
succeedJoin(g) ==
    /\ stack[g] # <<>>
    /\ Top(g).k = "succeed"
    /\ succeeds < MaxCount
    /\ succeeds' = succeeds + 1
    /\ deliverCell(g, Top(g).c, True, Top(g).c, Pop(g))
    /\ UNCHANGED <<always, count, program, todo, factoryCalls, factoryArg, decs, panicked, channel, cell, locals, history>>

\* ThenAllf / ThenAnyf: factory() returns the list of the joined cells
listFactory(g) ==
    /\ stack[g] # <<>>
    /\ Top(g).k = "factory"
    /\ stack' = [stack EXCEPT ![g] = Pop(g)]
    /\ UNCHANGED <<cells, count, program, todo, chronicle, channel, cell, locals, history>>

\* all / any: no promises, return resolved; otherwise count and result are set up
joinStart(g) ==
    /\ stack[g] # <<>>
    /\ Top(g).k = "join"
    /\ Top(g).i = 0
    /\ IF joined = 0
       THEN /\ stack' = [stack EXCEPT ![g] = ReturnJoin(g, ResolvedCell)]
            /\ count' = count
       ELSE /\ stack' = [stack EXCEPT ![g] = Replace(g, [Top(g) EXCEPT !.i = 1])]
            /\ count' = IF prog \in JoinsAll THEN joined ELSE count
    /\ UNCHANGED <<cells, program, todo, chronicle, channel, cell, locals, history>>

\* all / any: promise.Always(...) for the next of the promises
joinRegister(g) ==
    /\ stack[g] # <<>>
    /\ Top(g).k = "join"
    /\ Top(g).i >= 1
    /\ AlwaysCell(g, promises[Top(g).i],
                  Closure(IF prog \in JoinsAll THEN "all" ELSE "any", Top(g).c, NoCell),
                  Replace(g, [Top(g) EXCEPT !.k = "joincheck"]))
    /\ UNCHANGED <<slot, count, program, todo, chronicle, channel, cell, locals, history>>

\* all / any: the early-out, the next promise, or the return of result
joinCheck(g) ==
    /\ stack[g] # <<>>
    /\ Top(g).k = "joincheck"
    /\ stack' = [stack EXCEPT ![g] =
                    IF IsDelivered(slot[Top(g).c]) \/ Top(g).i = joined
                    THEN ReturnJoin(g, Top(g).c)
                    ELSE Replace(g, [Top(g) EXCEPT !.k = "join", !.i = @ + 1])]
    /\ UNCHANGED <<cells, count, program, todo, chronicle, channel, cell, locals, history>>

\* Thenf / ThenWithResult: result := NewPromise(); p.Always(...); return result
Thenf(g) ==
    /\ stack[g] # <<>>
    /\ Top(g).k = "Thenf"
    /\ AlwaysCell(g, Top(g).c, Closure("then", BridgeCell, Top(g).i), Pop(g))
    /\ UNCHANGED <<slot, count, program, todo, chronicle, channel, cell, locals, history>>

StepCombinators(g) ==
    \/ \E x \in Outcomes : userDeliver(g, x)
    \/ runForward(g)
    \/ runThen(g)
    \/ runAll(g)
    \/ succeedJoin(g)
    \/ listFactory(g)
    \/ joinStart(g)
    \/ joinRegister(g)
    \/ joinCheck(g)
    \/ Thenf(g)

NextCombinators == \E g \in Goroutines : StepCombinators(g)

SpecCombinators == InitCombinators /\ [][NextCombinators]_vars

\* the caller of the combinator cancels the bridge it was returned
cancelBridge(g) ==
    /\ g = Main
    /\ todo[g]
    /\ stack[g] = <<>>
    /\ todo' = [todo EXCEPT ![g] = FALSE]
    /\ deliverCell(g, BridgeCell, ErrPromiseCanceled, BridgeCell, <<>>)
    /\ UNCHANGED <<always, count, program, factoryCalls, factoryArg, decs, succeeds, panicked, channel, cell, locals, history>>

\* the program of InitCombinators, whose caller goes on to cancel the bridge
InitCancel ==
    /\ New
    /\ NoChannel
    /\ closures = 0
    /\ prog \in Programs
    /\ joined \in (IF prog \in Sequential THEN {1} ELSE 0..NumJoined)
    /\ promises = [i \in 1..joined |-> i]
    /\ slot = [c \in Cells |-> IF c = ResolvedCell THEN Placeholder(True) ELSE Nil]
    /\ always = [c \in Cells |-> <<>>]
    /\ stack = [g \in Goroutines |-> IF g = Main THEN ProgramOf(prog) ELSE <<>>]
    /\ count = 0
    /\ todo = [g \in Goroutines |-> g = Main \/ g = PCell \/ g \in 1..joined]
    /\ factoryCalls = 0
    /\ factoryArg = Nil
    /\ origin = [c \in Cells |-> NoCell]
    /\ firstResolved = NoCell
    /\ decs = [c \in Joined |-> 0]
    /\ succeeds = 0
    /\ panicked = FALSE

NextCancel == \E g \in Goroutines : StepCombinators(g) \/ cancelBridge(g)

SpecCancel == InitCancel /\ [][NextCancel]_vars

(***************************************************************************)
(* Wait and Signal.  A program calls p.Wait(waitChan) or                   *)
(* p.Signal(waitChan) and, after Signal, receives from waitChan as the     *)
(* tests do, while another goroutine delivers p before, during or after    *)
(* that call; nobody else uses the channel.  A goroutine can be             *)
(* descheduled between its call of Wait / Signal and the Lock() of Always,  *)
(* so the call and the locked body of Always are two steps.  A send blocks  *)
(* until the channel has room or a receiver is waiting, a receive until a   *)
(* value is there.                                                          *)
(***************************************************************************)
Bridges == {"Wait", "Signal"}

InitChannel ==
    /\ New
    /\ closures = 0
    /\ prog \in Bridges
    /\ joined = 0
    /\ promises = <<>>
    /\ capacity \in 0..MaxCap
    /\ buffer = <<>>
    /\ received = <<>>
    /\ calledOn = "none"
    /\ slot = [c \in Cells |-> IF c = ResolvedCell THEN Placeholder(True) ELSE Nil]
    /\ always = [c \in Cells |-> <<>>]
    /\ stack = [g \in Goroutines |-> IF g = Main THEN <<Frame(prog, PCell, <<>>, 0)>> ELSE <<>>]
    /\ count = 0
    /\ todo = [g \in Goroutines |-> g = PCell]
    /\ factoryCalls = 0
    /\ factoryArg = Nil
    /\ origin = [c \in Cells |-> NoCell]
    /\ firstResolved = NoCell
    /\ decs = [c \in Joined |-> 0]
    /\ succeeds = 0
    /\ panicked = FALSE

\* g has called Wait / Signal, which is about to call p.Always
bridgeCall(g) ==
    /\ stack[g] # <<>>
    /\ Top(g).k \in Bridges
    /\ Top(g).i = 0
    /\ calledOn' = IF IsPending(slot[Top(g).c]) THEN "pending" ELSE "resolved"
    /\ stack' = [stack EXCEPT ![g] = Replace(g, [Top(g) EXCEPT !.i = 1])]
    /\ UNCHANGED <<cells, count, program, todo, chronicle, capacity, buffer, received, cell, locals, history>>

\* Wait / Signal: p.Always(func(p2) { waitChan <- p2 }); what is left of the
\* call is the receive of Wait, or for Signal the caller's own receive
bridgeRegister(g) ==
    /\ stack[g] # <<>>
    /\ Top(g).k \in Bridges
    /\ Top(g).i = 1
    /\ AlwaysCell(g, Top(g).c, Closure("send", NoCell, NoCell),
                  Replace(g, [Top(g) EXCEPT !.k = IF Top(g).k = "Wait" THEN "receive" ELSE "returned"]))
    /\ UNCHANGED <<slot, count, program, todo, chronicle, channel, cell, locals, history>>

\* g is blocked in, or about to execute, <-waitChan
Receiving(g) ==
    /\ stack[g] # <<>>
    /\ Top(g).k \in {"receive", "returned"}

\* the handler of Wait / Signal: waitChan <- p2, into the buffer
sendBuffered(g) ==
    /\ Calling(g, {"send"})
    /\ Len(buffer) < capacity
    /\ buffer' = Append(buffer, Top(g).c)
    /\ stack' = [stack EXCEPT ![g] = Settle(Rest(g))]
    /\ UNCHANGED <<cells, count, program, todo, chronicle, capacity, received, calledOn, cell, locals, history>>

\* the handler of Wait / Signal: waitChan <- p2, handed to the goroutine r
\* that waits in <-waitChan
sendReceive(g, r) ==
    /\ Calling(g, {"send"})
    /\ r # g
    /\ Receiving(r)
    /\ buffer = <<>>
    /\ received' = Append(received, Top(g).c)
    /\ stack' = [stack EXCEPT ![g] = Settle(Rest(g)), ![r] = Pop(r)]
    /\ UNCHANGED <<cells, count, program, todo, chronicle, capacity, buffer, calledOn, cell, locals, history>>

\* <-waitChan, from the buffer
receive(g) ==
    /\ Receiving(g)
    /\ buffer # <<>>
    /\ received' = Append(received, Head(buffer))
    /\ buffer' = Tail(buffer)
    /\ stack' = [stack EXCEPT ![g] = Pop(g)]
    /\ UNCHANGED <<cells, count, program, todo, chronicle, capacity, calledOn, cell, locals, history>>

StepChannel(g) ==
    \/ \E x \in Outcomes : userDeliver(g, x)
    \/ bridgeCall(g)
    \/ bridgeRegister(g)
    \/ sendBuffered(g)
    \/ \E r \in Goroutines : sendReceive(g, r)
    \/ receive(g)

NextChannel == \E g \in Goroutines : StepChannel(g)

SpecChannel == InitChannel /\ [][NextChannel]_vars

(***************************************************************************)
(* Properties.                                                             *)
(***************************************************************************)
\* whether a handler of category cat applies to the outcome held in r
Applies(cat, r) ==
    CASE cat = "Success" -> IsSuccess(r)
      [] cat = "Catch" -> IsFailed(r)
      [] cat = "Canceled" -> IsCanceled(r)
      [] cat = "Always" -> IsDelivered(r)
      [] OTHER -> FALSE

\* the argument a handler of category cat is to receive for the outcome in r
Argument(cat, r) ==
    CASE cat = "Success" -> Result(r)
      [] cat = "Catch" -> Error(r)
      [] cat = "Canceled" -> NoArg
      [] cat = "Always" -> Self
      [] OTHER -> Nil

\* the registration call of handler h is over
Registered(h) ==
    /\ reg[h].cat # "none"
    /\ \A t \in Threads : hnd[t] = h => pc[t] \in {"idle", "done"}

\* the cell is resolved and the call that resolved it is over
DispatchDone ==
    /\ IsDelivered(result)
    /\ \A t \in Threads : wasDelivered[t] => pc[t] = "done"

\* goroutine t is inside notify()
InNotify(t) == pc[t] \in {"n_begin", "n_loop"}

\* goroutine t is in a delivery call that found the cell already resolved
Loser(t) == op[t] = "deliver" /\ ~wasDelivered[t]

\* C1: once the cell is resolved, no step changes the stored outcome, so
\* Result(), Error(), RawResult() and the Is* predicates keep their values.
C1_WriteOnce ==
    [][IsDelivered(result) =>
          /\ result' = result
          /\ Result(result') = Result(result)
          /\ Error(result') = Error(result)
          /\ RawResult(result') = RawResult(result)
          /\ IsSuccess(result') = IsSuccess(result)
          /\ IsFailed(result') = IsFailed(result)
          /\ IsCanceled(result') = IsCanceled(result)
          /\ IsDelivered(result')]_vars

\* a second delivery has run its body on the resolved cell
C1_Witness ==
    /\ IsDelivered(result)
    /\ \E t \in Threads : pc[t] = "d_unlock" /\ Loser(t)

\* C2: of the delivery calls racing on a pending cell exactly one performs the
\* transition, and notify() runs exactly once, in the call that performed it.
C2_OneTransitionOneDispatch ==
    /\ transitions <= 1
    /\ dispatches <= 1
    /\ IsDelivered(result) <=> transitions = 1
    /\ \A t, u \in Threads : wasDelivered[t] /\ wasDelivered[u] => t = u
    /\ \A t \in Threads : InNotify(t) => wasDelivered[t]
    /\ \A t \in Threads : wasDelivered[t] /\ pc[t] = "n_begin" => dispatches = 0
    /\ \A t \in Threads : wasDelivered[t] /\ pc[t] \in {"n_loop", "done"} => dispatches = 1
    /\ IsDelivered(result) /\ (\A t \in Threads : ~wasDelivered[t]) => dispatches = 1

\* a second delivery call runs while the call that won the race is in notify()
C2_Witness ==
    \E t, u \in Threads :
        /\ t # u
        /\ wasDelivered[t] /\ InNotify(t)
        /\ Loser(u) /\ pc[u] \in {"d_unlock", "done"}

\* C3: whatever the interleaving of registrations and deliveries, no handler
\* is invoked twice, none is invoked that does not apply to the outcome, and
\* once the cell is resolved and the calls are over every registered handler
\* that applies has been invoked exactly once, by notify() or by its own
\* registration call.
C3_ExactlyOnce ==
    \A h \in Handlers :
        /\ Len(calls[h]) <= 1
        /\ calls[h] # <<>> => Applies(reg[h].cat, result)
        /\ calls[h] # <<>> /\ calls[h][1].mode = "direct" => reg[h].direct /\ ~reg[h].stored
        /\ calls[h] # <<>> /\ calls[h][1].mode = "dispatch" => reg[h].stored /\ ~reg[h].direct
        /\ Registered(h) /\ DispatchDone /\ Applies(reg[h].cat, result) => Len(calls[h]) = 1

\* a registration arrived while notify() was running, and its handler has
\* been invoked by its own call
C3_Witness ==
    \E h \in Handlers : \E t \in Threads :
        /\ reg[h].direct
        /\ Len(calls[h]) = 1
        /\ InNotify(t)

\* C4: a delivery attempt on a resolved cell (a call that reaches deliver)
\* stores nothing, leaves the handler lists alone, invokes no handler, never
\* enters notify() and returns the cell.
C4_SecondDeliveryNoOp ==
    [][\A t \in Threads :
          /\ (pc[t] = "idle" /\ op'[t] = "deliver" /\ IsDelivered(result)) =>
                 /\ ~wasDelivered'[t]
                 /\ pc'[t] = "d_unlock"
          /\ (Loser(t) /\ pc'[t] # pc[t]) \/ (pc[t] = "idle" /\ Loser(t)') =>
                 /\ UNCHANGED <<result, lists, reg, calls, transitions, dispatches>>
                 /\ pc'[t] \in {"d_unlock", "done", "idle"}
                 /\ pc'[t] = "done" => ret'[t] = "self"]_vars

\* a delivery on a resolved cell has returned, and a handler that had run
\* before has still run once
C4_Witness ==
    \E t \in Threads : \E h \in Handlers :
        /\ pc[t] = "done" /\ Loser(t) /\ ret[t] = "self"
        /\ Len(calls[h]) = 1

\* C5: for the handlers stored on the cell, once the dispatch is over: on
\* success every success and always handler has run exactly once and no catch
\* or canceled handler; on an error other than the marker every catch and
\* always handler and no success or canceled handler; on cancellation every
\* catch handler (with the marker), canceled handler and always handler and no
\* success handler.
C5_DispatchByOutcome ==
    \A h \in Handlers :
        reg[h].stored =>
            /\ reg[h].cat = "Success" /\ ~IsSuccess(result) => calls[h] = <<>>
            /\ reg[h].cat = "Catch" /\ IsSuccess(result) => calls[h] = <<>>
            /\ reg[h].cat = "Canceled" /\ ~IsCanceled(result) => calls[h] = <<>>
            /\ Len(calls[h]) <= 1
            /\ DispatchDone /\ Registered(h) =>
                  /\ reg[h].cat = "Success" /\ IsSuccess(result) =>
                         calls[h] = <<[arg |-> Result(result), mode |-> "dispatch"]>>
                  /\ reg[h].cat = "Catch" /\ IsFailed(result) =>
                         calls[h] = <<[arg |-> Error(result), mode |-> "dispatch"]>>
                  /\ reg[h].cat = "Canceled" /\ IsCanceled(result) =>
                         calls[h] = <<[arg |-> NoArg, mode |-> "dispatch"]>>
                  /\ reg[h].cat = "Always" =>
                         calls[h] = <<[arg |-> Self, mode |-> "dispatch"]>>

\* a cancellation has been dispatched to a catch, a canceled and an always handler
C5_Witness ==
    /\ DispatchDone
    /\ IsCanceled(result)
    /\ \E c, d, a \in Handlers :
          /\ reg[c].cat = "Catch" /\ reg[c].stored
          /\ calls[c] = <<[arg |-> ErrPromiseCanceled, mode |-> "dispatch"]>>
          /\ reg[d].cat = "Canceled" /\ reg[d].stored /\ Len(calls[d]) = 1
          /\ reg[a].cat = "Always" /\ reg[a].stored /\ Len(calls[a]) = 1

\* C6: a registration on a resolved cell whose category applies to the outcome
\* takes the direct invoke, and when the call returns its handler has been
\* invoked exactly once, by that call, with the stored payload, error or cell.
C6_PostRegistration ==
    /\ \A t \in Threads :
          pc[t] = "r_unlock" =>
              /\ notify[t] <=> Applies(op[t], result)
              /\ reg[hnd[t]].direct <=> notify[t]
    /\ \A t \in Threads :
          pc[t] = "done" /\ op[t] \in RegistrationKinds /\ notify[t] =>
              calls[hnd[t]] = <<[arg |-> Argument(op[t], result), mode |-> "direct"]>>
    /\ \A h \in Handlers :
          reg[h].direct =>
              /\ Len(calls[h]) <= 1
              /\ Registered(h) =>
                     calls[h] = <<[arg |-> Argument(reg[h].cat, result), mode |-> "direct"]>>

\* a registration on a resolved cell has returned after the direct invoke
C6_Witness ==
    \E t \in Threads :
        /\ pc[t] = "done"
        /\ op[t] \in RegistrationKinds
        /\ notify[t]
        /\ Len(calls[hnd[t]]) = 1

\* C7: when a handler invoked by notify() panics, every other handler stored
\* on the cell that applies to the outcome is still invoked exactly once, and
\* the delivery call that ran notify() returns the cell.
C7_FaultIsolation ==
    (\E g \in Handlers : reg[g].panics /\ calls[g] # <<>> /\ calls[g][1].mode = "dispatch") =>
        /\ \A t \in Threads : wasDelivered[t] => pc[t] \in {"n_loop", "done"}
        /\ \A t \in Threads : wasDelivered[t] /\ pc[t] = "done" => ret[t] = "self"
        /\ DispatchDone =>
              \A h \in Handlers :
                  reg[h].stored /\ Registered(h) /\ Applies(reg[h].cat, result) =>
                      Len(calls[h]) = 1

\* the first of two handlers of one list panicked, the second has run, and
\* the delivery call has returned the cell
C7_Witness ==
    /\ \E t \in Threads : wasDelivered[t] /\ pc[t] = "done" /\ ret[t] = "self"
    /\ \E g, h \in Handlers :
          /\ g # h
          /\ reg[g].panics /\ reg[g].stored /\ Len(calls[g]) = 1
          /\ reg[h].cat = reg[g].cat /\ g < h
          /\ ~reg[h].panics /\ reg[h].stored /\ Len(calls[h]) = 1

\* C8: a registration call returns normally also when the handler it invokes
\* directly panics.
C8_RegistrationContainsPanic ==
    \A t \in Threads :
        pc[t] = "done" /\ op[t] \in RegistrationKinds => ret[t] = "self"

\* C9: in every state exactly one of IsPending, IsSuccess, IsFailed holds, the
\* other predicates and the accessors agree with it, and a cell that was never
\* delivered is pending with Result(), Error() and RawResult() nil.
C9_PredicateConsistency ==
    /\ \/ IsPending(result) /\ ~IsSuccess(result) /\ ~IsFailed(result)
       \/ ~IsPending(result) /\ IsSuccess(result) /\ ~IsFailed(result)
       \/ ~IsPending(result) /\ ~IsSuccess(result) /\ IsFailed(result)
    /\ IsDelivered(result) <=> ~IsPending(result)
    /\ IsError(result) <=> IsFailed(result)
    /\ IsCanceled(result) => IsFailed(result)
    /\ IsCanceled(result) <=> Error(result) = ErrPromiseCanceled
    /\ Error(result) # Nil <=> IsFailed(result)
    /\ ~IsSuccess(result) => Result(result) = Nil
    /\ transitions = 0 =>
          /\ IsPending(result) /\ ~IsDelivered(result)
          /\ ~IsSuccess(result) /\ ~IsFailed(result) /\ ~IsError(result) /\ ~IsCanceled(result)
          /\ Result(result) = Nil /\ Error(result) = Nil /\ RawResult(result) = Nil

\* a canceled cell: IsCanceled and IsFailed hold together
C9_Witness ==
    /\ transitions = 1
    /\ IsCanceled(result)
    /\ IsFailed(result)

\* C10: Fail(E) on a pending cell, E an error other than nil and the marker,
\* leaves the cell failed, not canceled, with Error() = RawResult() = E and
\* Result() nil; Cancel() on a pending cell leaves it failed and canceled with
\* Error() = RawResult() = ErrPromiseCanceled.
C10_FailAndCancel ==
    [][\A t \in Threads :
          /\ \A e \in ErrorArgs \ {Nil, ErrPromiseCanceled} :
                 Fail(t, e) /\ IsPending(result) =>
                     /\ IsDelivered(result') /\ IsFailed(result') /\ IsError(result')
                     /\ ~IsCanceled(result') /\ ~IsSuccess(result')
                     /\ Error(result') = e
                     /\ RawResult(result') = e
                     /\ Result(result') = Nil
          /\ Cancel(t) /\ IsPending(result) =>
                 /\ IsDelivered(result') /\ IsFailed(result') /\ IsCanceled(result')
                 /\ ~IsSuccess(result')
                 /\ Error(result') = ErrPromiseCanceled
                 /\ RawResult(result') = ErrPromiseCanceled]_vars

\* a call delivered an error other than the marker to the pending cell and returned
C10_Witness ==
    /\ IsFailed(result)
    /\ ~IsCanceled(result)
    /\ \E t \in Threads : wasDelivered[t] /\ pc[t] = "done" /\ ret[t] = "self"

\* goroutine t makes the first step of a call in this step
Enters(t) == pc[t] = "idle" /\ pc'[t] # "idle"

\* C11: SucceedWithResult(v) and Deliver(v) on a pending cell, v neither an
\* error nor a cell, leave the cell succeeded, not failed, not canceled, not
\* pending, with Error() nil and Result() = RawResult() = v, also for v nil;
\* Succeed() is the same step as SucceedWithResult(true).
C11_SuccessDelivery ==
    [][\A t \in Threads : Enters(t) =>
          /\ \A v \in Payloads \ {E1, ErrPromiseCanceled} :
                 ((SucceedWithResult(t, v) \/ Deliver(t, FALSE, v)) /\ IsPending(result)) =>
                     /\ IsSuccess(result') /\ IsDelivered(result')
                     /\ ~IsFailed(result') /\ ~IsCanceled(result') /\ ~IsPending(result')
                     /\ Error(result') = Nil
                     /\ Result(result') = v
                     /\ RawResult(result') = v
          /\ Succeed(t) <=> SucceedWithResult(t, True)
          /\ Succeed(t) /\ IsPending(result) => Result(result') = True]_vars

\* nil was delivered to the pending cell: an empty success, and the call returned
C11_Witness ==
    /\ result = nilResult
    /\ IsSuccess(result) /\ ~IsPending(result)
    /\ Result(result) = Nil /\ RawResult(result) = Nil
    /\ \E t \in Threads : wasDelivered[t] /\ pc[t] = "done" /\ ret[t] = "self"

\* C12: DeliverWithPromise(src), and Deliver(src) with src a cell, panic when
\* src is pending, and the call changes nothing of the receiver: not its
\* result, not its handler lists, and it invokes no handler.
C12_PendingSourcePanics ==
    [][\A t \in Threads :
          (pc[t] = "idle" /\ (DeliverWithPromise(t, Nil) \/ Deliver(t, TRUE, Nil))) =>
              /\ pc'[t] = "done"
              /\ ret'[t] = "panic"
              /\ UNCHANGED <<result, lock, lists, reg, calls, transitions, dispatches>>]_vars

\* a delivery from a pending source has panicked on a pending receiver that
\* holds a handler, and the handler has not been invoked
C12_Witness ==
    /\ IsPending(result)
    /\ \E t \in Threads : pc[t] = "done" /\ op[t] = "DeliverWithPromise" /\ ret[t] = "panic"
    /\ \E h \in Handlers : reg[h].stored /\ calls[h] = <<>>

\* C13: DeliverWithPromise(src) on a pending receiver, src resolved, leaves the
\* receiver with src's IsSuccess, IsFailed, IsCanceled, Result(), Error() and
\* RawResult(), whatever src holds.
C13_OutcomeTransplant ==
    [][\A t \in Threads : \A s \in StoredValues :
          Enters(t) /\ IsPending(result) /\ DeliverWithPromise(t, s) =>
              /\ IsDelivered(result')
              /\ IsSuccess(result') = IsSuccess(s)
              /\ IsFailed(result') = IsFailed(s)
              /\ IsCanceled(result') = IsCanceled(s)
              /\ Result(result') = Result(s)
              /\ Error(result') = Error(s)
              /\ RawResult(result') = RawResult(s)]_vars

\* the receiver took a cancellation and its dispatch reached the canceled loop
C13_Witness ==
    /\ IsCanceled(result)
    /\ \E t \in Threads : wasDelivered[t] /\ pc[t] = "n_loop" /\ phase[t] = "canceled"

Done(g) == stack[g] = <<>> /\ ~todo[g]

\* every delivery has been made and every call is over
Quiet == \A g \in Goroutines : Done(g)

\* C15: when the source of Then / Thenf / ThenWithResult is failed or canceled
\* the factory is never invoked, and the bridge resolves with the source's
\* outcome itself (same error, canceled if canceled), whether the source was
\* resolved when the combinator was called or later.
C15_ShortCircuit ==
    IsFailed(slot[PCell]) =>
        /\ factoryCalls = 0
        /\ IsDelivered(slot[BridgeCell]) =>
               /\ slot[BridgeCell] = slot[PCell]
               /\ origin[BridgeCell] = PCell
               /\ Error(slot[BridgeCell]) = Error(slot[PCell])
               /\ IsCanceled(slot[BridgeCell]) <=> IsCanceled(slot[PCell])
        /\ Done(Main) /\ Done(PCell) => IsFailed(slot[BridgeCell])

\* the source was canceled after Thenf had stored its handler; the bridge is
\* canceled, the continuation succeeded, and the factory was not invoked
C15_Witness ==
    /\ prog \in Sequential
    /\ IsCanceled(slot[PCell])
    /\ always[PCell] # <<>>
    /\ IsCanceled(slot[BridgeCell])
    /\ IsSuccess(slot[1])
    /\ factoryCalls = 0
    /\ Quiet

\* C16: when the source of Thenf / ThenWithResult succeeds the factory is
\* invoked exactly once (ThenWithResult: with the source's payload); the bridge
\* is pending as long as the continuation is, and then holds the continuation's
\* outcome; a succeeded bridge means source and continuation both succeeded,
\* with the continuation's result.
C16_SuccessPath ==
    prog \in Sequential =>
        /\ factoryCalls <= 1
        /\ factoryCalls = 1 =>
               /\ IsSuccess(slot[PCell])
               /\ factoryArg = IF prog = "ThenWithResult" THEN Result(slot[PCell]) ELSE NoArg
        /\ IsSuccess(slot[PCell]) /\ Done(Main) /\ Done(PCell) => factoryCalls = 1
        /\ IsSuccess(slot[PCell]) /\ IsDelivered(slot[BridgeCell]) =>
               /\ IsDelivered(slot[1])
               /\ slot[BridgeCell] = slot[1]
               /\ origin[BridgeCell] = 1
        /\ IsSuccess(slot[PCell]) /\ IsDelivered(slot[1]) /\ Quiet =>
               IsDelivered(slot[BridgeCell])
        /\ IsSuccess(slot[BridgeCell]) =>
               /\ IsSuccess(slot[PCell])
               /\ IsSuccess(slot[1])
               /\ Result(slot[BridgeCell]) = Result(slot[1])

\* ThenWithResult: the factory got the payload, its cell was still pending and
\* took the forwarding handler, and the bridge succeeded with that cell's result
C16_Witness ==
    /\ prog = "ThenWithResult"
    /\ factoryCalls = 1
    /\ factoryArg = V12
    /\ always[1] # <<>>
    /\ IsSuccess(slot[BridgeCell])
    /\ Result(slot[BridgeCell]) = V12
    /\ Quiet

\* C17: in all, a handler that finds its cell failed or canceled leaves the
\* aggregate resolved as failed, with that cell's outcome if the aggregate was
\* pending; a failed aggregate holds the outcome of one of the failed cells
\* and keeps it; and with a failed cell among the N the aggregate is never
\* succeeded, whatever the other cells deliver.
C17_JoinAllFailure ==
    [][prog = "ThenAll" /\ joined >= 1 =>
          /\ \A g \in Goroutines :
                 (runAll(g) /\ IsFailed(slot[Top(g).c])) =>
                     /\ IsFailed(slot'[JoinCell])
                     /\ IsPending(slot[JoinCell]) =>
                            /\ slot'[JoinCell] = slot[Top(g).c]
                            /\ IsCanceled(slot'[JoinCell]) <=> IsCanceled(slot[Top(g).c])
          /\ (\E c \in 1..joined : IsFailed(slot'[c])) => ~IsSuccess(slot'[JoinCell])
          /\ IsFailed(slot[JoinCell]) => slot'[JoinCell] = slot[JoinCell]
          /\ IsFailed(slot'[JoinCell]) =>
                 /\ origin'[JoinCell] \in 1..joined
                 /\ slot'[JoinCell] = slot'[origin'[JoinCell]]
          /\ IsSuccess(slot'[PCell]) /\ IsDelivered(slot'[BridgeCell]) =>
                 slot'[BridgeCell] = slot'[JoinCell]]_vars

\* the second of two cells was canceled and the first succeeded and was
\* counted: the aggregate and the bridge are canceled
C17_Witness ==
    /\ prog = "ThenAll"
    /\ joined = 2
    /\ IsSuccess(slot[1])
    /\ decs[1] = 1
    /\ IsCanceled(slot[2])
    /\ IsCanceled(slot[JoinCell])
    /\ origin[JoinCell] = 2
    /\ IsCanceled(slot[BridgeCell])
    /\ Quiet

\* the decrements of the countdown so far, over the first n cells
RECURSIVE SumDecs(_)
SumDecs(n) == IF n = 0 THEN 0 ELSE decs[n] + SumDecs(n - 1)

\* all has set up its countdown
JoinStarted ==
    \A k \in 1..Len(stack[Main]) :
        ~(stack[Main][k].k = "join" /\ stack[Main][k].i = 0)

C19_EmptyJoin ==
    /\ slot[ResolvedCell] = Placeholder(True)
    /\ IsSuccess(slot[ResolvedCell])
    /\ always[ResolvedCell] = <<>>
    /\ origin[ResolvedCell] = NoCell
    /\ prog \in Joins /\ joined = 0 =>
           /\ IsPending(slot[JoinCell])
           /\ always[JoinCell] = <<>>
           /\ IsDelivered(slot[BridgeCell]) /\ IsSuccess(slot[PCell]) =>
                  /\ origin[BridgeCell] = ResolvedCell
                  /\ slot[BridgeCell] = slot[ResolvedCell]
           /\ Done(Main) /\ always[PCell] = <<>> /\ IsSuccess(slot[PCell]) =>
                  /\ IsSuccess(slot[BridgeCell])
                  /\ Result(slot[BridgeCell]) = True
           /\ Quiet /\ IsSuccess(slot[PCell]) => IsSuccess(slot[BridgeCell])

\* ThenAny() over no cells was called on a succeeded receiver and has
\* returned a bridge that is succeeded with resolved's outcome
C19_Witness ==
    /\ prog = "ThenAny"
    /\ joined = 0
    /\ Done(Main)
    /\ always[PCell] = <<>>
    /\ IsSuccess(slot[PCell])
    /\ IsSuccess(slot[BridgeCell])
    /\ origin[BridgeCell] = ResolvedCell

\* C20 as claimed: the bridge of any holds the outcome of the cell that was
\* the first of the N to be resolved.
C20_FirstResolvedWins ==
    prog = "ThenAny" /\ joined >= 1 /\ IsDelivered(slot[JoinCell]) =>
        slot[JoinCell] = slot[firstResolved]

\* C20 as amended: the bridge of any holds the outcome of one of the N cells,
\* the one whose handler was the first to deliver to the bridge, a cell that
\* was resolved by then; deliveries by the other cells leave the bridge
\* unchanged; and once a cell is resolved and the calls are over the bridge
\* is resolved.
C20_FirstDeliveryWins ==
    [][prog = "ThenAny" /\ joined >= 1 =>
          /\ \A g \in Goroutines :
                 (runForward(g) /\ Head(Top(g).hs).k = "any" /\ IsPending(slot[JoinCell])) =>
                     /\ slot'[JoinCell] = slot[Top(g).c]
                     /\ origin'[JoinCell] = Top(g).c
          /\ IsDelivered(slot'[JoinCell]) =>
                 /\ origin'[JoinCell] \in 1..joined
                 /\ IsDelivered(slot'[origin'[JoinCell]])
                 /\ slot'[JoinCell] = slot'[origin'[JoinCell]]
          /\ IsDelivered(slot[JoinCell]) =>
                 /\ slot'[JoinCell] = slot[JoinCell]
                 /\ origin'[JoinCell] = origin[JoinCell]
          /\ Quiet' /\ (\E c \in 1..joined : IsDelivered(slot'[c])) =>
                 IsDelivered(slot'[JoinCell])]_vars

\* the first cell was resolved first, the second cell's handler delivered
\* first: the bridge holds the second cell's outcome, which is another one
C20_Witness ==
    /\ prog = "ThenAny"
    /\ joined = 2
    /\ firstResolved = 1
    /\ origin[JoinCell] = 2
    /\ slot[JoinCell] = slot[2]
    /\ slot[1] # slot[2]
    /\ Quiet

\* C21: on a receiver that is failed or canceled the bridge ThenAll, ThenAllf,
\* ThenAny or ThenAnyf returns is never succeeded; when resolved it holds the
\* receiver's outcome itself (canceled if the receiver is), delivered from the
\* receiver whatever the joined cells deliver; it is resolved once the
\* combinator and the receiver's delivery have returned; and it stays pending
\* while the receiver is.
C21_ReceiverFailureDominates ==
    prog \in Joins =>
        /\ IsPending(slot[PCell]) => IsPending(slot[BridgeCell])
        /\ IsFailed(slot[PCell]) =>
               /\ ~IsSuccess(slot[BridgeCell])
               /\ IsDelivered(slot[BridgeCell]) =>
                      /\ slot[BridgeCell] = slot[PCell]
                      /\ origin[BridgeCell] = PCell
                      /\ IsCanceled(slot[BridgeCell]) <=> IsCanceled(slot[PCell])
               /\ Done(Main) /\ Done(PCell) => IsFailed(slot[BridgeCell])

\* ThenAllf over two cells that both succeeded, so that the aggregate is
\* succeeded; the receiver was canceled after the call and the bridge is canceled
C21_Witness ==
    /\ prog = "ThenAllf"
    /\ joined = 2
    /\ IsSuccess(slot[1]) /\ IsSuccess(slot[2])
    /\ IsSuccess(slot[JoinCell])
    /\ always[PCell] # <<>>
    /\ IsCanceled(slot[PCell])
    /\ IsCanceled(slot[BridgeCell])
    /\ Quiet

\* the list factory of ThenAllf / ThenAnyf has been invoked
ListFactoryInvoked ==
    /\ prog \in JoinsFactory
    /\ \A k \in 1..Len(stack[Main]) : stack[Main][k].k # "factory"

\* C22 as claimed: as long as the receiver has not resolved as success, no
\* always handler is stored on any of the N cells, none of them has counted
\* down or resolved the aggregate, and the list factory of ThenAllf /
\* ThenAnyf has not been invoked.
C22_JoinStartsAfterReceiver ==
    prog \in Joins /\ ~IsSuccess(slot[PCell]) =>
        /\ \A c \in 1..joined : always[c] = <<>>
        /\ \A c \in 1..joined : decs[c] = 0
        /\ IsPending(slot[JoinCell])
        /\ ~ListFactoryInvoked

\* C25 as claimed: once the cell is resolved no step changes any of the four
\* handler lists.
C25_RegistryFrozen ==
    [][IsDelivered(result) => lists' = lists]_vars

\* C26: when the dispatcher invokes a handler, the handlers stored in the same
\* category before it (closures are numbered in the order of their
\* registration calls) have been invoked, whether or not they panicked, and
\* those stored after it have not.
C26_RegistrationOrder ==
    [][\A t \in Threads :
          notifyHandler(t) =>
              \A g \in Handlers :
                  (/\ g # Head(handlers[t])
                   /\ reg[g].stored
                   /\ reg[g].cat = reg[Head(handlers[t])].cat) =>
                      /\ g < Head(handlers[t]) => Len(calls[g]) = 1
                      /\ g > Head(handlers[t]) => calls[g] = <<>>]_vars

\* the first of two catch handlers panicked when the dispatcher invoked it and
\* the second is the next to be invoked
C26_Witness ==
    /\ reg[1].cat = "Catch" /\ reg[1].stored /\ reg[1].panics
    /\ reg[2].cat = "Catch" /\ reg[2].stored
    /\ Len(calls[1]) = 1
    /\ calls[1][1].mode = "dispatch"
    /\ calls[2] = <<>>
    /\ \E t \in Threads : pc[t] = "n_loop" /\ handlers[t] # <<>> /\ Head(handlers[t]) = 2

\* C27 as claimed: whenever an always handler is invoked, by the dispatcher or
\* directly by a registration call, every stored success, catch or canceled
\* handler that applies to the outcome has been invoked; and whenever a
\* canceled handler is invoked every stored catch handler has been.
C27_AlwaysLast ==
    [][\A h \in Handlers :
          calls'[h] # calls[h] =>
              /\ reg[h].cat = "Always" =>
                     \A g \in Handlers :
                         (/\ reg[g].stored
                          /\ reg[g].cat # "Always"
                          /\ Applies(reg[g].cat, result)) => calls[g] # <<>>
              /\ reg[h].cat = "Canceled" =>
                     \A g \in Handlers :
                         (reg[g].stored /\ reg[g].cat = "Catch") => calls[g] # <<>>]_vars

\* C27 as amended: whenever the dispatcher invokes an always handler, every
\* stored success, catch or canceled handler that applies to the outcome has
\* been invoked; whenever it invokes a canceled handler every stored catch
\* handler has been; and it invokes no always handler before those loops.
C27_DispatchOrder ==
    [][\A t \in Threads :
          notifyHandler(t) =>
              /\ phase[t] = "always" =>
                     \A g \in Handlers :
                         (/\ reg[g].stored
                          /\ reg[g].cat # "Always"
                          /\ Applies(reg[g].cat, result)) => calls[g] # <<>>
              /\ phase[t] = "canceled" =>
                     \A g \in Handlers :
                         (reg[g].stored /\ reg[g].cat = "Catch") => calls[g] # <<>>
              /\ phase[t] # "always" =>
                     /\ reg[Head(handlers[t])].cat # "Always"
                     /\ \A g \in Handlers :
                            (reg[g].stored /\ reg[g].cat = "Always") => calls[g] = <<>>]_vars

\* a canceled handler and an always handler were stored; the cell was
\* canceled and the dispatcher has invoked the canceled handler and is about
\* to invoke the always handler
C27_Witness ==
    /\ \E g, h \in Handlers :
           /\ reg[g].cat = "Canceled" /\ reg[g].stored
           /\ reg[h].cat = "Always" /\ reg[h].stored
           /\ Len(calls[g]) = 1
           /\ calls[h] = <<>>
           /\ \E t \in Threads :
                  /\ pc[t] = "n_loop"
                  /\ phase[t] = "always"
                  /\ handlers[t] = <<h>>
    /\ IsCanceled(result)

\* C28: the step by which the caller cancels the bridge changes the result and
\* the stored handlers of no other cell and takes from no producer the
\* delivery it has yet to make; a producer that has yet to deliver finds its
\* cell pending and its delivery stores the outcome it is given; once the
\* receiver has succeeded and the calls on it have returned the continuation
\* factory has been invoked once, canceled bridge or not; a bridge the caller
\* canceled stays as it is under the forwarding that follows, and no call
\* panics.
C28_NoCascade ==
    [][/\ cancelBridge(Main) =>
              /\ \A c \in Cells \ {BridgeCell} : slot'[c] = slot[c] /\ always'[c] = always[c]
              /\ \A g \in Goroutines \ {Main} : todo'[g] = todo[g] /\ stack'[g] = stack[g]
              /\ IsPending(slot[BridgeCell]) => IsCanceled(slot'[BridgeCell])
       /\ \A g \in Goroutines \ {Main} :
              /\ todo[g] => IsPending(slot[g]) /\ stack[g] = <<>>
              /\ \A x \in Outcomes : userDeliver(g, x) => slot'[g] = Placeholder(x)
       /\ IsSuccess(slot[PCell]) /\ Done(Main) /\ Done(PCell) => factoryCalls = 1
       /\ IsDelivered(slot[BridgeCell]) =>
              /\ slot'[BridgeCell] = slot[BridgeCell]
              /\ origin'[BridgeCell] = origin[BridgeCell]
       /\ ~panicked']_vars

\* the caller canceled the bridge of ThenWithResult while the receiver was
\* pending; the receiver then succeeded, the factory was invoked with its
\* payload, the continuation failed and its handler forwarded that to the
\* bridge, which is still canceled
C28_Witness ==
    /\ prog = "ThenWithResult"
    /\ IsCanceled(slot[BridgeCell])
    /\ origin[BridgeCell] = BridgeCell
    /\ IsSuccess(slot[PCell])
    /\ factoryCalls = 1
    /\ factoryArg = V12
    /\ slot[1] = E1
    /\ always[1] # <<>>
    /\ Quiet

\* C29: a goroutine that runs handlers (inside notify(), or about to call a
\* handler directly) does not hold the lock, so a call a handler makes on the
\* same cell finds the lock free of its own goroutine; whoever holds the lock
\* is inside a locked body and releases it with its next step; a call made
\* from within a handler holds the lock only in its own locked body and
\* leaves the copy the interrupted loop iterates as it was taken; a handler
\* is invoked at most once, by the dispatcher only if it was stored and
\* directly only if it was not, and once every call is over each registered
\* handler whose category applies has been invoked exactly once.
C29_Reentrancy ==
    /\ \A t \in Threads :
           /\ pc[t] \in {"n_begin", "n_loop", "r_call"} => lock # t
           /\ outer[t] # NoCall /\ pc[t] \in {"idle", "done"} => lock # t
           /\ outer[t] # NoCall /\ outer[t].pc = "n_loop" =>
                  /\ IsDelivered(result)
                  /\ \A k \in 1..Len(outer[t].handlers) :
                         /\ reg[outer[t].handlers[k]].stored
                         /\ calls[outer[t].handlers[k]] = <<>>
                         /\ outer[t].handlers[k] # hnd[t]
    /\ lock # NoThread => pc[lock] \in {"d_unlock", "r_unlock"}
    /\ \A h \in Handlers :
           /\ Len(calls[h]) <= 1
           /\ calls[h] # <<>> /\ calls[h][1].mode = "direct" => reg[h].direct /\ ~reg[h].stored
           /\ calls[h] # <<>> /\ calls[h][1].mode = "dispatch" => reg[h].stored /\ ~reg[h].direct
           /\ (/\ Registered(h)
               /\ DispatchDone
               /\ \A t \in Threads : outer[t] = NoCall
               /\ Applies(reg[h].cat, result)) => Len(calls[h]) = 1

\* a success handler invoked by the dispatcher registered an always handler
\* on the same cell: that call is over, its handler was invoked directly,
\* once, and the loop it interrupts has a stored handler left to invoke
C29_Witness ==
    \E t \in Threads :
        /\ outer[t] # NoCall
        /\ outer[t].pc = "n_loop"
        /\ outer[t].phase = "success"
        /\ outer[t].handlers # <<>>
        /\ op[t] = "Always"
        /\ pc[t] = "done"
        /\ ret[t] = "self"
        /\ Len(calls[hnd[t]]) = 1
        /\ calls[hnd[t]][1].mode = "direct"
        /\ alwaysHandlers = <<>>

\* g is in the send of its handler and no step of any goroutine completes it:
\* the channel has no room and nobody waits in a receive
Blocked(g) ==
    /\ Calling(g, {"send"})
    /\ Len(buffer) >= capacity
    /\ \A r \in Goroutines \ {g} : ~Receiving(r)

\* g is blocked in its send and no other goroutine has a receive ahead of it
BlockedForever(g) ==
    /\ Blocked(g)
    /\ \A r \in Goroutines \ {g} :
           \A k \in 1..Len(stack[r]) :
               stack[r][k].k \notin Bridges \cup {"receive", "returned"}

\* C23 as claimed: Wait called on a resolved cell is never blocked for good,
\* whatever the capacity of the channel, and when it has returned it has
\* received the cell.
C23_WaitOnDelivered ==
    prog = "Wait" /\ calledOn = "resolved" =>
        /\ ~BlockedForever(Main)
        /\ Done(Main) => received = <<PCell>>

\* C24 as claimed: the caller of Signal is never blocked inside Signal,
\* whatever the state of the cell and the capacity of the channel, and the
\* cell is sent at most once, only when it is resolved.
C24_SignalNeverBlocks ==
    prog = "Signal" =>
        /\ ~Blocked(Main)
        /\ Len(buffer) + Len(received) <= 1
        /\ Len(buffer) + Len(received) = 1 => IsDelivered(slot[PCell])

\* C30 as claimed: after Wait was called on a pending cell no goroutine is
\* blocked for good, whatever the capacity of the channel and whenever the
\* other goroutine delivers, and once both calls have returned Wait has
\* received the cell.
C30_WaitOnPending ==
    prog = "Wait" /\ calledOn = "pending" =>
        /\ \A g \in Goroutines : ~BlockedForever(g)
        /\ Quiet => received = <<PCell>>

\* C33: Fail with a nil error on a pending cell never produces a success: the
\* call leaves the cell pending or failed, never with IsSuccess true.
C33_FailNilNeverSucceeds ==
    [][\A t \in Threads :
          (Enters(t) /\ Fail(t, Nil) /\ IsPending(result)) =>
              (IsPending(result') \/ IsFailed(result')) /\ ~IsSuccess(result')]_vars

\* C34: SucceedWithResult(v) on a pending cell leaves IsSuccess true for every
\* payload v, an error value and the cancellation marker included.
C34_SucceedWithAnyPayload ==
    [][\A t \in Threads : \A v \in Payloads :
          (Enters(t) /\ SucceedWithResult(t, v) /\ IsPending(result)) =>
              IsSuccess(result') /\ ~IsFailed(result')]_vars

\* the kinds of the handlers the combinators install
Installed == {"then", "fwd", "all", "any"}

\* C35: no handler installed by Then, Thenf, ThenWithResult, ThenAll(f) or
\* ThenAny(f) panics in DeliverWithPromise: whenever such a handler is about
\* to be called, from a dispatch loop or directly by a registration, the cell
\* it is called for, which is the source of the DeliverWithPromise it may
\* issue, is resolved already.
C35_SourceResolved ==
    /\ ~panicked
    /\ \A g \in Goroutines :
           Calling(g, Installed) => IsDelivered(slot[Top(g).c])

\* ThenAll / ThenAny over two cells: a joined cell's outcome was forwarded to
\* the aggregate and the aggregate's outcome to the bridge, both by
\* DeliverWithPromise, and every call has returned
C35_Witness ==
    /\ prog \in Joins /\ joined = NumJoined
    /\ origin[JoinCell] \in Joined
    /\ origin[BridgeCell] = JoinCell
    /\ slot[BridgeCell] = slot[origin[JoinCell]]
    /\ ~panicked
    /\ Quiet

\* the handler of Thenf / ThenWithResult on a succeeded source when the call
\* of the user's factory panics: nothing is registered and nothing delivered;
\* the panic ends the handler and is recovered by notifyAlways, or, on the
\* direct invoke of Always, leaves Thenf itself
factoryFault(g) ==
    /\ prog \in Sequential
    /\ Calling(g, {"then"})
    /\ IsSuccess(slot[Top(g).c])
    /\ factoryCalls < MaxCount
    /\ factoryCalls' = factoryCalls + 1
    /\ factoryArg' = IF prog = "ThenWithResult" THEN Result(slot[Top(g).c]) ELSE NoArg
    /\ stack' = [stack EXCEPT ![g] = Unwind(Rest(g))]
    /\ UNCHANGED <<slot, always, origin, firstResolved, panicked>>
    /\ UNCHANGED <<count, program, todo, decs, succeeds, channel, cell, locals, history>>

\* sequential chaining with a factory that may panic
InitFault == InitCombinators /\ prog \in Sequential

StepFault(g) ==
    \/ \E x \in Outcomes : userDeliver(g, x)
    \/ Thenf(g)
    \/ runThen(g)
    \/ factoryFault(g)
    \/ runForward(g)

NextFault == \E g \in Goroutines : StepFault(g)

SpecFault == InitFault /\ [][NextFault]_vars

\* C31: the bridge of Then / Thenf / ThenWithResult is not left pending once
\* the source is resolved and, if it succeeded, the continuation's cell is
\* resolved too, also when the call of the factory panics: when every call has
\* returned, so that no step remains that could resolve it, the bridge is
\* resolved.
C31_BridgeResolves ==
    (/\ prog \in Sequential
     /\ IsDelivered(slot[PCell])
     /\ IsSuccess(slot[PCell]) => IsDelivered(slot[1])
     /\ Quiet)
        => IsDelivered(slot[BridgeCell])

\* the lists of n joined cells in which a cell may occur more than once, up
\* to the names of the cells: a cell occurs only after every cell of a lower
\* number has
Lists(n) ==
    {ps \in [1..n -> Joined] :
        \A i \in 1..n : \A c \in 1..(ps[i] - 1) : \E j \in 1..(i - 1) : ps[j] = c}

\* the cell is one of the promises of the join
Listed(c) == \E i \in 1..joined : promises[i] = c

\* p.ThenAll(promises...) / p.ThenAny(promises...) over one or more cells, a
\* cell possibly listed more than once
InitJoins ==
    /\ New
    /\ NoChannel
    /\ closures = 0
    /\ prog \in {"ThenAll", "ThenAny"}
    /\ joined \in 1..NumJoined
    /\ promises \in Lists(joined)
    /\ slot = [c \in Cells |-> IF c = ResolvedCell THEN Placeholder(True) ELSE Nil]
    /\ always = [c \in Cells |-> <<>>]
    /\ stack = [g \in Goroutines |-> IF g = Main THEN ProgramOf(prog) ELSE <<>>]
    /\ count = 0
    /\ todo = [g \in Goroutines |-> g = PCell \/ Listed(g)]
    /\ factoryCalls = 0
    /\ factoryArg = Nil
    /\ origin = [c \in Cells |-> NoCell]
    /\ firstResolved = NoCell
    /\ decs = [c \in Joined |-> 0]
    /\ succeeds = 0
    /\ panicked = FALSE

\* the steps of the library's code in goroutine g: the combinators' calls and
\* the handlers run by the deliveries in progress
RunJoins(g) ==
    \/ Thenf(g)
    \/ joinStart(g)
    \/ joinRegister(g)
    \/ joinCheck(g)
    \/ runThen(g)
    \/ runAll(g)
    \/ succeedJoin(g)
    \/ runForward(g)

\* what the producers deliver: a success or a failure
JoinOutcomes == {V12, E1}

NextJoins ==
    \E g \in Goroutines :
        \/ \E x \in JoinOutcomes : userDeliver(g, x)
        \/ RunJoins(g)

\* a goroutine that has a call in progress goes on with it: the runtime
\* schedules every runnable goroutine, and none of the calls blocks; when the
\* producers deliver is left open
SpecJoins ==
    /\ InitJoins
    /\ [][NextJoins]_vars
    /\ \A g \in Goroutines : WF_vars(RunJoins(g))

\* C32: ThenAll over one or more cells, a cell possibly listed more than once:
\* once the receiver and every listed cell are resolved as success, whatever
\* the order of the deliveries and of the call, the bridge is eventually
\* resolved as success. ThenAny: once the receiver has succeeded and one of
\* the listed cells is resolved, the bridge is eventually resolved.
C32_JoinLiveness ==
    /\ (/\ prog = "ThenAll"
        /\ IsSuccess(slot[PCell])
        /\ \A i \in 1..joined : IsSuccess(slot[promises[i]]))
           ~> IsSuccess(slot[BridgeCell])
    /\ (/\ prog = "ThenAny"
        /\ IsSuccess(slot[PCell])
        /\ \E i \in 1..joined : IsDelivered(slot[promises[i]]))
           ~> IsDelivered(slot[BridgeCell])

\* ThenAll over a list that names one cell at both places: the cell succeeded,
\* count went down once for each place, and the bridge is succeeded
C32_Witness ==
    /\ prog = "ThenAll"
    /\ joined = NumJoined
    /\ \A i \in 1..joined : promises[i] = 1
    /\ IsSuccess(slot[PCell])
    /\ IsSuccess(slot[1])
    /\ decs[1] = joined
    /\ count = 0
    /\ IsSuccess(slot[BridgeCell])
    /\ Quiet

====
